---- MODULE Spec2Model ----
(***************************************************************************)
(* Model of the edge poll service (src/edge/poll.go): the PollService      *)
(* object, its start/stop/restart operations, the status-poll loop         *)
(* goroutines, the activity-monitoring loop goroutines, the goroutines     *)
(* spawned by "go service.restartStatusPollLoop()" and the HTTP layer's    *)
(* activity-reset hook (src/http/handler/browse/browse_delete.go).         *)
(*                                                                         *)
(* The fields of PollService are protected by no lock, so every read or    *)
(* write of a shared field (refreshSignal, pollIntervalInSeconds,          *)
(* lastActivity, the tunnel's open flag) is a step of its own and the      *)
(* goroutines interleave freely between such steps.  Statements that touch *)
(* nothing shared are joined to the shared access that follows them.       *)
(*                                                                         *)
(* responseData is local to one call of poll() and its fields are          *)
(* independent of one another, so each field is drawn at the step that     *)
(* reads it; Status, read twice, is drawn with the fetch.                  *)
(***************************************************************************)
EXTENDS Integers, Sequences, FiniteSets, TLC

\* ---------------------------------------------------------------- bounds
\* events from outside in one run that start work: start() and stop() calls,
\* ticks that start an iteration of poll() or an idle check of the monitor,
\* HTTP requests that find the tunnel open
MaxEvents == 4
\* last instant of the clock
MaxTime   == 3
\* status responses in one run that ask for another cadence
MaxCadenceChanges == 1

\* ------------------------------------------------------- configuration
\* config.PollFrequency and config.InactivityTimeout, in clock units
PollFrequency     == 1
InactivityTimeout == 1

NilChan  == 0      \* the nil channel
ZeroTime == 0      \* time.Time{}, for which lastActivity.IsZero() holds

\* ------------------------------------------------- status responses
StatusValues == {"IDLE", "REQUIRED", "ACTIVE"}

\* responseData.Credentials: a string that is not base64, base64 of bytes
\* that do not decrypt under the edge ID, base64 of a proper ciphertext
CredentialValues == {"not-base64", "b64:garbage", "b64:enc:secret"}

CheckinValues == {0, 1, 2}

\* responseData.Stacks: nil, or a (possibly empty) list of {ID, Version}
NilStacks   == [present |-> FALSE, list |-> <<>>]
StackValues == {NilStacks,
                [present |-> TRUE, list |-> <<>>],
                [present |-> TRUE, list |-> <<[ID |-> 1, Version |-> 2],
                                              [ID |-> 2, Version |-> 1]>>]}

\* base64.RawStdEncoding.DecodeString: the bytes, or an error
DecodeString(s) ==
    IF s = "b64:garbage" THEN [err |-> FALSE, val |-> "garbage"]
    ELSE IF s = "b64:enc:secret" THEN [err |-> FALSE, val |-> "enc:secret"]
    ELSE [err |-> TRUE, val |-> ""]

\* libcrypto.Decrypt under the edge ID: the plaintext, or an error
Decrypt(b) ==
    IF b = "enc:secret" THEN [err |-> FALSE, val |-> "secret"]
    ELSE [err |-> TRUE, val |-> ""]

VARIABLES
    tunnelClient,           \* TRUE iff service.tunnelClient != nil
    tunnelOpen,             \* tunnelClient.IsTunnelOpen()
    pollIntervalInSeconds,
    lastActivity,
    refreshSignal,          \* NilChan or the id of a channel
    chans,                  \* number of channels made so far
    closedChans,            \* ids of the channels that were closed
    now,                    \* the latest instant read from the clock
    panicked,               \* "" or the runtime panic that ended the process
    caller,                 \* the owner of the service calling start()/stop()
    loops,                  \* the status-poll loop goroutines
    restarts,               \* the goroutines running restartStatusPollLoop
    monitors,               \* the activity-monitoring goroutines
    http,                   \* an HTTP request passing enhanceAPIForEdgeMode
    lastCreated,            \* the instant the latest successful CreateTunnel
                            \* returned, ZeroTime while there is none
    events,                 \* number of events from outside so far
    last                    \* what the latest step did, for the properties

vars == <<tunnelClient, tunnelOpen, pollIntervalInSeconds, lastActivity,
          refreshSignal, chans, closedChans, now, panicked, caller, loops,
          restarts, monitors, http, lastCreated, events, last>>

\* ------------------------------------------------------------ helpers
Indices(seq) == 1..Len(seq)

\* a status-poll loop goroutine
\*   pc        where the goroutine stands
\*   sel       the channel its select waits on
\*   status    responseData.Status of the iteration
\*   checkin   responseData.CheckinInterval, between lines 237 and 239
\*   ev        the calls and writes the iteration has made so far, in order
\*   createdAt the instant CreateTunnel returned nil, until createTunnel returns
\*   stopped   a stop() closed a cancellation token while the loop was waiting
\*             in its select or inside poll()
NewLoop == [pc |-> "top", sel |-> NilChan, status |-> "", checkin |-> 0,
            ev |-> <<>>, createdAt |-> ZeroTime, stopped |-> FALSE]

ExitedLoop == [NewLoop EXCEPT !.pc = "done"]

Alive(l) == loops[l].pc # "done"

InIteration(l) == loops[l].pc \notin {"top", "select", "done"}

Ev(op, ok) == [op |-> op, ok |-> ok]

\* the number of times an iteration made the call op
Calls(ev, op) == Cardinality({i \in 1..Len(ev) : ev[i].op = op})

\* the owner of the service
\*   pc   where it stands in start() or stop(), "idle" in between
\*   op   the call it made last
\*   saw  the refreshSignal that call found at its guard
\*   did  what that call has done to the service so far
\*   ret  what that call returned, "" while it has not
IdleCaller == [pc |-> "idle", op |-> "", saw |-> NilChan, did |-> <<>>, ret |-> ""]

\* what a step did
\*   op      "" or the name of what happened
\*   who     the goroutine it happened in
\*   status, ev, err   of the iteration, when poll() returned in the step
\*   ok      the outcome of the call made in the step
\*   cred, checkin, stacks   the fields of the response the step read
\*   cadence the pollIntervalInSeconds the step read
\*   mapping the map handed to UpdateStacksStatus, if it was called
\*   createdAt, elapsed   the instant CreateTunnel returned; the idle time
\*   call    "create" or "close" when the step called the tunnel client
\*   wrote   the step wrote lastActivity
\*   spawned the number of restartStatusPollLoop goroutines the step launched
\*   wasOpen, wasActive, sig   tunnelOpen, lastActivity and refreshSignal when
\*           the step began
NoStep == [op |-> "", who |-> 0, status |-> "", ev |-> <<>>, err |-> "",
           ok |-> TRUE, cred |-> "", createdAt |-> ZeroTime,
           checkin |-> 0, cadence |-> 0, stacks |-> NilStacks, mapping |-> <<>>,
           elapsed |-> 0, call |-> "", wrote |-> FALSE, spawned |-> 0,
           wasOpen |-> FALSE, wasActive |-> ZeroTime, sig |-> NilChan]

Returned(l, ev, err) ==
    [NoStep EXCEPT !.op = "poll returned", !.who = l,
                   !.status = loops[l].status, !.ev = ev, !.err = err]

Running == panicked = ""

\* time.Now(), time.Since: the clock never runs backwards
Clock == now..MaxTime

\* ------------------------------------------------------------ newPollService
Init ==
    /\ tunnelClient \in BOOLEAN
    /\ tunnelOpen = FALSE
    /\ pollIntervalInSeconds = PollFrequency
    /\ lastActivity = ZeroTime
    /\ refreshSignal = NilChan
    /\ chans = 0
    /\ closedChans = {}
    /\ now = 1
    /\ panicked = ""
    /\ caller = IdleCaller
    /\ loops = <<>>
    /\ restarts = <<>>
    /\ monitors = <<>>
    /\ http = "idle"
    /\ lastCreated = ZeroTime
    /\ events = 0
    /\ last = NoStep

\* ------------------------------------------------------------ channels
\* make(chan struct{}): a channel that no one holds yet
MakeChan == chans + 1

\* close(c): panics on the nil channel and on a closed channel; every loop
\* that waits in its select or is inside poll() when a token is closed has
\* been told to stop
CloseChan(c) ==
    IF c = NilChan
    THEN /\ panicked' = "close of nil channel"
         /\ UNCHANGED <<closedChans, loops>>
    ELSE IF c \in closedChans
    THEN /\ panicked' = "close of closed channel"
         /\ UNCHANGED <<closedChans, loops>>
    ELSE /\ closedChans' = closedChans \cup {c}
         /\ loops' = [l \in Indices(loops) |->
                         IF loops[l].pc = "select" \/ InIteration(l)
                         THEN [loops[l] EXCEPT !.stopped = TRUE]
                         ELSE loops[l]]
         /\ UNCHANGED panicked

\* lines 128-150: the goroutine launched by startStatusPollLoop
startStatusPollLoop == Append(loops, NewLoop)

\* startActivityMonitoringLoop without its test of the tunnel client
startActivityMonitoringLoop_NoNilCheck ==
    Append(monitors, [pc |-> "wait", elapsed |-> 0])

\* lines 152-190: the goroutine launched by startActivityMonitoringLoop, if any
startActivityMonitoringLoop ==
    IF tunnelClient THEN Append(monitors, [pc |-> "wait", elapsed |-> 0])
    ELSE monitors

\* ------------------------------------------------------------ start()
\* start() without its guard
AlreadyStarted_NoGuard == FALSE

\* line 103: does start() return at once
AlreadyStarted == refreshSignal # NilChan

\* line 103: the guard of start(); an already started service returns nil
start ==
    /\ Running
    /\ caller.pc = "idle"
    /\ events < MaxEvents
    /\ events' = events + 1
    /\ caller' = [pc  |-> IF AlreadyStarted THEN "idle" ELSE "start_launch",
                  op  |-> "start",
                  saw |-> refreshSignal,
                  did |-> <<>>,
                  ret |-> IF AlreadyStarted THEN "nil" ELSE ""]
    /\ last' = NoStep
    /\ UNCHANGED <<tunnelClient, tunnelOpen, pollIntervalInSeconds,
                   lastActivity, refreshSignal, chans, closedChans, now,
                   panicked, loops, restarts, monitors, http, lastCreated>>

\* lines 107-111: service.refreshSignal = make(chan struct{}), the two
\* loops are launched, return nil
start_launch ==
    /\ Running
    /\ caller.pc = "start_launch"
    /\ refreshSignal' = MakeChan
    /\ chans' = chans + 1
    /\ loops' = startStatusPollLoop
    /\ monitors' = startActivityMonitoringLoop
    /\ caller' = [caller EXCEPT !.pc = "idle", !.ret = "nil",
                     !.did = <<"make", "poll loop">> \o
                             (IF Len(monitors') > Len(monitors)
                              THEN <<"monitor loop">> ELSE <<>>)]
    /\ last' = NoStep
    /\ UNCHANGED <<tunnelClient, tunnelOpen, pollIntervalInSeconds,
                   lastActivity, closedChans, now, panicked, restarts, http,
                   lastCreated, events>>

\* ------------------------------------------------------------ stop()
\* line 115: does stop() have a token to close
IsRunning == refreshSignal # NilChan

\* line 115: the guard of stop(); a service that is not running returns nil
stop ==
    /\ Running
    /\ caller.pc = "idle"
    /\ events < MaxEvents
    /\ events' = events + 1
    /\ caller' = [pc  |-> IF IsRunning THEN "stop_close" ELSE "idle",
                  op  |-> "stop",
                  saw |-> refreshSignal,
                  did |-> <<>>,
                  ret |-> IF IsRunning THEN "" ELSE "nil"]
    /\ last' = NoStep
    /\ UNCHANGED <<tunnelClient, tunnelOpen, pollIntervalInSeconds,
                   lastActivity, refreshSignal, chans, closedChans, now,
                   panicked, loops, restarts, monitors, http, lastCreated>>

\* line 116: close(service.refreshSignal), the field read again
stop_close ==
    /\ Running
    /\ caller.pc = "stop_close"
    /\ CloseChan(refreshSignal)
    /\ caller' = [caller EXCEPT !.pc = "stop_nil", !.did = Append(@, "close")]
    /\ last' = NoStep
    /\ UNCHANGED <<tunnelClient, tunnelOpen, pollIntervalInSeconds,
                   lastActivity, refreshSignal, chans, now, restarts,
                   monitors, http, lastCreated, events>>

\* lines 117-119: service.refreshSignal = nil, then return nil
stop_nil ==
    /\ Running
    /\ caller.pc = "stop_nil"
    /\ refreshSignal' = NilChan
    /\ caller' = [caller EXCEPT !.pc = "idle", !.ret = "nil",
                                !.did = Append(@, "nil")]
    /\ last' = NoStep
    /\ UNCHANGED <<tunnelClient, tunnelOpen, pollIntervalInSeconds,
                   lastActivity, chans, closedChans, now, panicked, loops,
                   restarts, monitors, http, lastCreated, events>>

\* ------------------------------------------------ restartStatusPollLoop()
RestartAt(r, p) == [restarts EXCEPT ![r].pc = p]

\* lines 123, 115: service.stop(), its guard
restart_stop(r) ==
    /\ Running
    /\ restarts[r].pc = "stop"
    /\ restarts' = RestartAt(r, IF IsRunning THEN "stop_close" ELSE "launch")
    /\ last' = NoStep
    /\ UNCHANGED <<tunnelClient, tunnelOpen, pollIntervalInSeconds,
                   lastActivity, refreshSignal, chans, closedChans, now,
                   panicked, caller, loops, monitors, http, lastCreated,
                   events>>

\* line 116
restart_stop_close(r) ==
    /\ Running
    /\ restarts[r].pc = "stop_close"
    /\ CloseChan(refreshSignal)
    /\ restarts' = RestartAt(r, "stop_nil")
    /\ last' = NoStep
    /\ UNCHANGED <<tunnelClient, tunnelOpen, pollIntervalInSeconds,
                   lastActivity, refreshSignal, chans, now, caller, monitors,
                   http, lastCreated, events>>

\* line 117
restart_stop_nil(r) ==
    /\ Running
    /\ restarts[r].pc = "stop_nil"
    /\ refreshSignal' = NilChan
    /\ restarts' = RestartAt(r, "launch")
    /\ last' = NoStep
    /\ UNCHANGED <<tunnelClient, tunnelOpen, pollIntervalInSeconds,
                   lastActivity, chans, closedChans, now, panicked, caller,
                   loops, monitors, http, lastCreated, events>>

\* lines 124-125: service.refreshSignal = make(chan struct{}),
\* service.startStatusPollLoop(), and the goroutine ends
restart_launch(r) ==
    /\ Running
    /\ restarts[r].pc = "launch"
    /\ refreshSignal' = MakeChan
    /\ chans' = chans + 1
    /\ loops' = startStatusPollLoop
    /\ restarts' = RestartAt(r, "done")
    /\ last' = NoStep
    /\ UNCHANGED <<tunnelClient, tunnelOpen, pollIntervalInSeconds,
                   lastActivity, closedChans, now, panicked, caller,
                   monitors, http, lastCreated, events>>

\* -------------------------------------------------------- tunnel client
\* agent.ReverseTunnelClient: CreateTunnel opens the tunnel unless it fails,
\* CloseTunnel closes it unless it fails
CreateTunnel(ok) == IF ok THEN TRUE ELSE tunnelOpen

CloseTunnel(ok) == IF ok THEN FALSE ELSE tunnelOpen

\* ---------------------------------------------------- status-poll loop
Goto(l, p) == [loops EXCEPT ![l].pc = p]

\* poll() has returned: the loop logs an error and goes round (lines 137-139)
Return(l) == [loops EXCEPT ![l] = [NewLoop EXCEPT !.stopped = loops[l].stopped]]

\* lines 133-134: the select statement evaluates service.refreshSignal
loop_select(l) ==
    /\ Running
    /\ loops[l].pc = "top"
    /\ loops' = [loops EXCEPT ![l].pc = "select", ![l].sel = refreshSignal]
    /\ last' = NoStep
    /\ UNCHANGED <<tunnelClient, tunnelOpen, pollIntervalInSeconds,
                   lastActivity, refreshSignal, chans, closedChans, now,
                   panicked, caller, restarts, monitors, http, lastCreated,
                   events>>

\* lines 141-144: the channel the select waits on is closed; the loop returns
loop_cancel(l) ==
    /\ Running
    /\ loops[l].pc = "select"
    /\ loops[l].sel # NilChan
    /\ loops[l].sel \in closedChans
    /\ loops' = [loops EXCEPT ![l] = ExitedLoop]
    /\ last' = NoStep
    /\ UNCHANGED <<tunnelClient, tunnelOpen, pollIntervalInSeconds,
                   lastActivity, refreshSignal, chans, closedChans, now,
                   panicked, caller, restarts, monitors, http, lastCreated,
                   events>>

\* lines 202, 203, 212: where poll() goes once it has the status
AfterFetch(st) ==
    IF ~tunnelClient THEN "schedule"
    ELSE IF st = "IDLE" THEN (IF tunnelOpen THEN "close" ELSE "schedule")
    ELSE IF st = "REQUIRED" THEN (IF ~tunnelOpen THEN "create" ELSE "schedule")
    ELSE "schedule"

\* lines 203, 212: the call of IsTunnelOpen that poll() makes for the status
IsTunnelOpenCall(st) ==
    IF tunnelClient /\ st \in {"IDLE", "REQUIRED"}
    THEN <<Ev("IsTunnelOpen", tunnelOpen)>> ELSE <<>>

\* a fetch failure that ends the loop
FetchFailed_LoopEnds(l) == [loops EXCEPT ![l] = ExitedLoop]

\* lines 196-198: what the loop does when the fetch failed
FetchFailed(l) == Return(l)

\* lines 135-136, 195-212: the ticker fires, poll() fetches the status and
\* looks at the tunnel
poll_fetch(l) ==
    /\ Running
    /\ loops[l].pc = "select"
    /\ events < MaxEvents
    /\ events' = events + 1
    /\ \E ok \in BOOLEAN, st \in StatusValues :
         IF ok
         THEN /\ loops' = [loops EXCEPT ![l].pc = AfterFetch(st),
                                        ![l].sel = NilChan,
                                        ![l].status = st,
                                        ![l].ev = <<Ev("GetEnvironmentStatus", TRUE)>>
                                          \o IsTunnelOpenCall(st)]
              /\ last' = [NoStep EXCEPT !.op = "GetEnvironmentStatus", !.who = l,
                                        !.status = st, !.wasOpen = tunnelOpen]
         ELSE /\ loops' = FetchFailed(l)
              /\ last' = [Returned(l, <<Ev("GetEnvironmentStatus", FALSE)>>, "fetch")
                            EXCEPT !.ok = FALSE, !.wasOpen = tunnelOpen,
                                   !.wasActive = lastActivity,
                                   !.cadence = pollIntervalInSeconds,
                                   !.sig = refreshSignal]
    /\ UNCHANGED <<tunnelClient, tunnelOpen, pollIntervalInSeconds,
                   lastActivity, refreshSignal, chans, closedChans, now,
                   panicked, caller, restarts, monitors, http, lastCreated>>

\* a close failure that ends the iteration
AfterClose_FailureReturns(ok) == IF ok THEN "schedule" ELSE "top"

\* lines 207-210: where poll() goes after CloseTunnel returned
AfterClose(ok) == "schedule"

\* lines 206-209: CloseTunnel, an error is logged
poll_close(l) ==
    /\ Running
    /\ loops[l].pc = "close"
    /\ \E ok \in BOOLEAN :
         /\ tunnelOpen' = CloseTunnel(ok)
         /\ loops' = IF AfterClose(ok) = "top" THEN Return(l)
                     ELSE [loops EXCEPT ![l].pc = AfterClose(ok),
                                        ![l].ev = Append(@, Ev("CloseTunnel", ok))]
         /\ last' = [(IF AfterClose(ok) = "top"
                      THEN Returned(l, Append(loops[l].ev, Ev("CloseTunnel", ok)), "close")
                      ELSE [NoStep EXCEPT !.op = "CloseTunnel", !.who = l])
                     EXCEPT !.ok = ok, !.call = "close", !.wasOpen = tunnelOpen]
    /\ UNCHANGED <<tunnelClient, pollIntervalInSeconds, lastActivity,
                   refreshSignal, chans, closedChans, now, panicked, caller,
                   restarts, monitors, http, lastCreated, events>>

\* createTunnel that drops the error of Decrypt
createTunnel_DecryptUnchecked(cred, ok) ==
    LET decoded   == DecodeString(cred)
        decrypted == Decrypt(decoded.val)
    IN  IF decoded.err
        THEN [err |-> "decode", calls |-> <<Ev("DecodeString", FALSE)>>]
        ELSE [err |-> IF ok THEN "nil" ELSE "create",
              calls |-> <<Ev("DecodeString", TRUE), Ev("Decrypt", ~decrypted.err),
                          Ev("CreateTunnel", ok)>>]

\* lines 265-286 of createTunnel: the calls made on the credentials, in
\* order, and the error returned ("nil" when the tunnel was created)
createTunnel(cred, ok) ==
    LET decoded   == DecodeString(cred)
        decrypted == Decrypt(decoded.val)
    IN  IF decoded.err
        THEN [err |-> "decode", calls |-> <<Ev("DecodeString", FALSE)>>]
        ELSE IF decrypted.err
        THEN [err |-> "decrypt", calls |-> <<Ev("DecodeString", TRUE),
                                             Ev("Decrypt", FALSE)>>]
        ELSE [err |-> IF ok THEN "nil" ELSE "create",
              calls |-> <<Ev("DecodeString", TRUE), Ev("Decrypt", TRUE),
                          Ev("CreateTunnel", ok)>>]

\* poll() that only logs the error of createTunnel
CreateFailed_OnlyLogged(err) == FALSE

\* lines 216-219: does poll() return the error of createTunnel
CreateFailed(err) == err # "nil"

\* lines 215-219, 260-286: createTunnel up to the return of CreateTunnel
poll_create(l) ==
    /\ Running
    /\ loops[l].pc = "create"
    /\ \E cred \in CredentialValues, ok \in BOOLEAN, t \in Clock :
         LET res    == createTunnel(cred, ok)
             called == Calls(res.calls, "CreateTunnel") > 0
             ev     == loops[l].ev \o res.calls
         IN
         /\ tunnelOpen' = IF called THEN CreateTunnel(res.err = "nil") ELSE tunnelOpen
         /\ now' = IF res.err = "nil" THEN t ELSE now
         /\ lastCreated' = IF res.err = "nil" THEN t ELSE lastCreated
         /\ loops' = IF res.err = "nil"
                     THEN [loops EXCEPT ![l].pc = "reset_chk", ![l].ev = ev,
                                        ![l].createdAt = t]
                     ELSE IF CreateFailed(res.err) THEN Return(l)
                     ELSE [loops EXCEPT ![l].pc = "schedule", ![l].ev = ev]
         /\ last' = [(IF res.err # "nil" /\ CreateFailed(res.err)
                      THEN Returned(l, ev, res.err)
                      ELSE [NoStep EXCEPT !.op = "CreateTunnel", !.who = l,
                                          !.err = res.err])
                     EXCEPT !.ok = ok,
                            !.cred = cred,
                            !.call = IF called THEN "create" ELSE "",
                            !.wasOpen = tunnelOpen,
                            !.wasActive = lastActivity]
    /\ UNCHANGED <<tunnelClient, pollIntervalInSeconds, lastActivity,
                   refreshSignal, chans, closedChans, panicked, caller,
                   restarts, monitors, http, events>>

\* line 92: the guard of resetActivityTimer
resetActivityTimer == tunnelClient /\ tunnelOpen

\* lines 288, 92: resetActivityTimer called by createTunnel, its guard;
\* with the guard false createTunnel returns nil
poll_reset_chk(l) ==
    /\ Running
    /\ loops[l].pc = "reset_chk"
    /\ IF resetActivityTimer
       THEN /\ loops' = Goto(l, "reset_set")
            /\ last' = NoStep
       ELSE /\ loops' = [loops EXCEPT ![l].pc = "schedule",
                                      ![l].createdAt = ZeroTime]
            /\ last' = [NoStep EXCEPT !.op = "createTunnel returned", !.who = l,
                                      !.createdAt = loops[l].createdAt,
                                      !.wasOpen = tunnelOpen]
    /\ UNCHANGED <<tunnelClient, tunnelOpen, pollIntervalInSeconds,
                   lastActivity, refreshSignal, chans, closedChans, now,
                   panicked, caller, restarts, monitors, http, lastCreated,
                   events>>

\* lines 93, 289: service.lastActivity = time.Now(); createTunnel returns nil
poll_reset_set(l) ==
    /\ Running
    /\ loops[l].pc = "reset_set"
    /\ \E t \in Clock : now' = t /\ lastActivity' = t
    /\ loops' = [loops EXCEPT ![l].pc = "schedule",
                              ![l].ev = Append(@, Ev("lastActivity", TRUE)),
                              ![l].createdAt = ZeroTime]
    /\ last' = [NoStep EXCEPT !.op = "createTunnel returned", !.who = l,
                              !.createdAt = loops[l].createdAt,
                              !.wrote = TRUE, !.wasOpen = tunnelOpen]
    /\ UNCHANGED <<tunnelClient, tunnelOpen, pollIntervalInSeconds,
                   refreshSignal, chans, closedChans, panicked, caller,
                   restarts, monitors, http, lastCreated, events>>

\* a failure of Schedule that skips the log collection
Convergence_FailureSkipsLogs(ok) ==
    IF ok THEN <<Ev("Schedule", TRUE), Ev("HandleReceivedLogsRequests", TRUE)>>
    ELSE <<Ev("Schedule", FALSE)>>

\* lines 223-235: the calls poll() makes with the schedules, an error of
\* Schedule is logged
Convergence(ok) == <<Ev("Schedule", ok), Ev("HandleReceivedLogsRequests", TRUE)>>

\* the values of responseData.CheckinInterval the server may still send
Checkins ==
    {c \in CheckinValues :
        (c > 0 /\ c # pollIntervalInSeconds) => Len(restarts) < MaxCadenceChanges}

\* the cadence test without "CheckinInterval > 0"
CadenceChanges_AnyDifference(checkin, current) == checkin # current

\* line 237: does the response change the cadence
CadenceChanges(checkin, current) == checkin > 0 /\ checkin # current

\* lines 245-248: the map from stack id to version
RECURSIVE stacksMap(_)
stacksMap(list) ==
    IF list = <<>> THEN <<>>
    ELSE LET rest == stacksMap(SubSeq(list, 1, Len(list) - 1))
             s    == list[Len(list)]
         IN  [id \in (DOMAIN rest) \cup {s.ID} |->
                IF id = s.ID THEN s.Version ELSE rest[id]]

\* an empty stack list taken for a missing one
HasStacks_NonEmpty(stacks) == stacks.present /\ stacks.list # <<>>

\* line 244: is there a stack list to hand over
HasStacks(stacks) == stacks.present

\* lines 244-255: the call poll() makes with the stacks
StackConvergence(stacks, ok) ==
    IF HasStacks(stacks) THEN <<Ev("UpdateStacksStatus", ok)>> ELSE <<>>

\* lines 250-257: what poll() returns after the stack step
StacksResult(calls) ==
    IF \E i \in Indices(calls) : ~calls[i].ok THEN "stacks" ELSE "nil"

\* lines 244-257: the stack step and the return of poll(), as seen in a step
StacksReturned(l, ev, stacks, ok) ==
    [Returned(l, ev \o StackConvergence(stacks, ok),
              StacksResult(StackConvergence(stacks, ok)))
       EXCEPT !.stacks = stacks,
              !.mapping = IF Len(StackConvergence(stacks, ok)) > 0
                          THEN <<stacksMap(stacks.list)>> ELSE <<>>]

\* lines 223-237, and 244-257 when the cadence stays: Schedule,
\* HandleReceivedLogsRequests, the cadence compared, then the stack step
poll_schedule(l) ==
    /\ Running
    /\ loops[l].pc = "schedule"
    /\ \E ok \in BOOLEAN, checkin \in Checkins,
          stacks \in StackValues, sok \in BOOLEAN :
         LET ev == loops[l].ev \o Convergence(ok) IN
         IF CadenceChanges(checkin, pollIntervalInSeconds)
         THEN /\ loops' = [loops EXCEPT ![l].pc = "cadence_set",
                                        ![l].checkin = checkin, ![l].ev = ev]
              /\ last' = [NoStep EXCEPT !.op = "Schedule", !.who = l, !.ok = ok,
                             !.checkin = checkin,
                             !.cadence = pollIntervalInSeconds]
         ELSE /\ loops' = Return(l)
              /\ last' = [StacksReturned(l, ev, stacks, sok) EXCEPT
                             !.ok = ok,
                             !.checkin = checkin,
                             !.cadence = pollIntervalInSeconds]
    /\ UNCHANGED <<tunnelClient, tunnelOpen, pollIntervalInSeconds,
                   lastActivity, refreshSignal, chans, closedChans, now,
                   panicked, caller, restarts, monitors, http, lastCreated,
                   events>>

\* the restart launched before the cadence is written and propagated
CadenceUpdate_RestartFirst ==
    <<Ev("go restartStatusPollLoop", TRUE), Ev("pollIntervalInSeconds", TRUE),
      Ev("SetTimeout", TRUE)>>

\* lines 239-241: what poll() does on a cadence change
CadenceUpdate == <<Ev("pollIntervalInSeconds", TRUE), Ev("SetTimeout", TRUE),
                   Ev("go restartStatusPollLoop", TRUE)>>

\* lines 239-257: the cadence written, SetTimeout, go restartStatusPollLoop(),
\* then the stack step
poll_cadence_set(l) ==
    /\ Running
    /\ loops[l].pc = "cadence_set"
    /\ pollIntervalInSeconds' =
          IF Calls(CadenceUpdate, "pollIntervalInSeconds") > 0
          THEN loops[l].checkin ELSE pollIntervalInSeconds
    /\ restarts' = restarts \o
          [i \in 1..Calls(CadenceUpdate, "go restartStatusPollLoop") |-> [pc |-> "stop"]]
    /\ loops' = Return(l)
    /\ \E stacks \in StackValues, sok \in BOOLEAN :
         last' = [StacksReturned(l, loops[l].ev \o CadenceUpdate, stacks, sok)
                    EXCEPT !.ok = sok,
                           !.checkin = loops[l].checkin,
                           !.cadence = pollIntervalInSeconds,
                           !.spawned = Len(restarts') - Len(restarts)]
    /\ UNCHANGED <<tunnelClient, tunnelOpen, lastActivity, refreshSignal,
                   chans, closedChans, now, panicked, caller, monitors, http,
                   lastCreated, events>>

\* -------------------------------------------- activity-monitoring loop
\* a monitor that does not look for the zero lastActivity
NeverActive_Unchecked == FALSE

\* line 167: service.lastActivity.IsZero()
NeverActive == lastActivity = ZeroTime

\* lines 165-172: the ticker fires; a zero lastActivity is skipped
monitor_tick(m) ==
    /\ Running
    /\ monitors[m].pc = "wait"
    /\ IF NeverActive
       THEN /\ monitors' = monitors
            /\ last' = [NoStep EXCEPT !.op = "monitor skipped", !.who = m,
                                      !.wasOpen = tunnelOpen]
            /\ UNCHANGED <<now, events>>
       ELSE /\ events < MaxEvents
            /\ events' = events + 1
            /\ \E t \in Clock :
                 /\ now' = t
                 /\ monitors' = [monitors EXCEPT ![m] =
                                   [pc |-> "check", elapsed |-> t - lastActivity]]
            /\ last' = NoStep
    /\ UNCHANGED <<tunnelClient, tunnelOpen, pollIntervalInSeconds,
                   lastActivity, refreshSignal, chans, closedChans, panicked,
                   caller, loops, restarts, http, lastCreated>>

\* the idle time compared with >= in place of >
Inactive_AtTimeout(elapsed) ==
    tunnelClient /\ tunnelOpen /\ elapsed >= InactivityTimeout

\* line 174: the tunnel is open and idle for longer than the timeout
Inactive(elapsed) == tunnelClient /\ tunnelOpen /\ elapsed > InactivityTimeout

\* line 174
monitor_check(m) ==
    /\ Running
    /\ monitors[m].pc = "check"
    /\ IF Inactive(monitors[m].elapsed)
       THEN /\ monitors' = [monitors EXCEPT ![m].pc = "close"]
            /\ last' = NoStep
       ELSE /\ monitors' = [monitors EXCEPT ![m] = [pc |-> "wait", elapsed |-> 0]]
            /\ last' = [NoStep EXCEPT !.op = "monitor kept", !.who = m,
                                      !.elapsed = monitors[m].elapsed,
                                      !.wasOpen = tunnelOpen]
    /\ UNCHANGED <<tunnelClient, tunnelOpen, pollIntervalInSeconds,
                   lastActivity, refreshSignal, chans, closedChans, now,
                   panicked, caller, loops, restarts, http, lastCreated,
                   events>>

\* a monitor that restarts the idle clock when it closes the tunnel
AfterInactivity_ResetsTimer(ok) ==
    [open |-> CloseTunnel(ok), activity |-> now]

\* lines 178-181: what the monitor leaves of the tunnel and of lastActivity
AfterInactivity(ok) ==
    [open |-> CloseTunnel(ok), activity |-> lastActivity]

\* lines 178-181: CloseTunnel, an error is logged
monitor_close(m) ==
    /\ Running
    /\ monitors[m].pc = "close"
    /\ \E ok \in BOOLEAN :
         /\ tunnelOpen' = AfterInactivity(ok).open
         /\ lastActivity' = AfterInactivity(ok).activity
         /\ monitors' = [monitors EXCEPT ![m] = [pc |-> "wait", elapsed |-> 0]]
         /\ last' = [NoStep EXCEPT !.op = "monitor closed", !.who = m, !.ok = ok,
                                   !.elapsed = monitors[m].elapsed,
                                   !.call = "close", !.wasOpen = tunnelOpen,
                                   !.wasActive = lastActivity]
    /\ UNCHANGED <<tunnelClient, pollIntervalInSeconds, refreshSignal, chans,
                   closedChans, now, panicked, caller, loops, restarts, http,
                   lastCreated, events>>

\* ------------------------------------------------ HTTP activity hook
\* browse_delete.go line 132, poll.go line 92: a request resets the timer
http_request ==
    /\ Running
    /\ http = "idle"
    /\ IF resetActivityTimer
       THEN /\ events < MaxEvents
            /\ events' = events + 1
            /\ http' = "reset_set"
       ELSE UNCHANGED <<events, http>>
    /\ last' = NoStep
    /\ UNCHANGED <<tunnelClient, tunnelOpen, pollIntervalInSeconds,
                   lastActivity, refreshSignal, chans, closedChans, now,
                   panicked, caller, loops, restarts, monitors, lastCreated>>

\* poll.go line 93
http_reset_set ==
    /\ Running
    /\ http = "reset_set"
    /\ \E t \in Clock : now' = t /\ lastActivity' = t
    /\ http' = "idle"
    /\ last' = [NoStep EXCEPT !.op = "ResetActivityTimer", !.wrote = TRUE,
                              !.wasOpen = tunnelOpen]
    /\ UNCHANGED <<tunnelClient, tunnelOpen, pollIntervalInSeconds,
                   refreshSignal, chans, closedChans, panicked, caller,
                   loops, restarts, monitors, lastCreated, events>>

\* ------------------------------------------------------------ the program
Next ==
    \/ start
    \/ start_launch
    \/ stop
    \/ stop_close
    \/ stop_nil
    \/ \E r \in Indices(restarts) : restart_stop(r)
    \/ \E r \in Indices(restarts) : restart_stop_close(r)
    \/ \E r \in Indices(restarts) : restart_stop_nil(r)
    \/ \E r \in Indices(restarts) : restart_launch(r)
    \/ \E l \in Indices(loops) : loop_select(l)
    \/ \E l \in Indices(loops) : loop_cancel(l)
    \/ \E l \in Indices(loops) : poll_fetch(l)
    \/ \E l \in Indices(loops) : poll_close(l)
    \/ \E l \in Indices(loops) : poll_create(l)
    \/ \E l \in Indices(loops) : poll_reset_chk(l)
    \/ \E l \in Indices(loops) : poll_reset_set(l)
    \/ \E l \in Indices(loops) : poll_schedule(l)
    \/ \E l \in Indices(loops) : poll_cadence_set(l)
    \/ \E m \in Indices(monitors) : monitor_tick(m)
    \/ \E m \in Indices(monitors) : monitor_check(m)
    \/ \E m \in Indices(monitors) : monitor_close(m)
    \/ http_request
    \/ http_reset_set

Spec == Init /\ [][Next]_vars

\* ------------------------------------------------------------ properties
\* The properties read `last`, the record of what the latest step did, and
\* the records the goroutines keep of themselves.

\* C1: at any instant at most one status-poll loop goroutine is active, a
\* loop being active from its launch until it has seen the cancellation and
\* returned.
C1_AtMostOneActivePollLoop ==
    Cardinality({l \in Indices(loops) : Alive(l)}) <= 1

\* C2: a loop that was waiting in its select or was inside poll() when
\* stop() closed the cancellation token exits without starting a further
\* iteration: whenever such a loop waits in its select, the channel it
\* waits on is closed, so that its cancellation case is ready.
C2_StoppedLoopSeesCancellation ==
    \A l \in Indices(loops) :
        (loops[l].stopped /\ loops[l].pc = "select") =>
            loops[l].sel \in closedChans

\* C3: start() on a started service (refreshSignal non-nil at its guard)
\* makes no channel and launches no loop, stop() on a stopped service
\* (refreshSignal nil at its guard) closes nothing and writes nothing, and
\* whatever start() and stop() return is nil.
C3_StartStopIdempotent ==
    /\ (caller.op = "start" /\ caller.saw # NilChan) =>
          caller.pc = "idle" /\ caller.did = <<>> /\ caller.ret = "nil"
    /\ (caller.op = "stop" /\ caller.saw = NilChan) =>
          caller.pc = "idle" /\ caller.did = <<>> /\ caller.ret = "nil"
    /\ caller.ret \in {"", "nil"}

\* a start() that found the service started, with its poll loop running
C3_Witness ==
    /\ caller.op = "start" /\ caller.saw # NilChan /\ caller.pc = "idle"
    /\ \E l \in Indices(loops) : Alive(l)

\* C4: an iteration that reads status REQUIRED with a tunnel client and the
\* tunnel closed goes on to createTunnel, which decodes, decrypts and calls
\* CreateTunnel once each; when CreateTunnel succeeded, at the return of
\* createTunnel the tunnel is open and lastActivity is an instant not
\* earlier than the one at which CreateTunnel returned.
C4_RequiredTunnelCreated ==
    /\ ( /\ last.op = "GetEnvironmentStatus" /\ last.status = "REQUIRED"
         /\ tunnelClient /\ ~last.wasOpen )
          => loops[last.who].pc = "create"
    /\ last.op = "createTunnel returned" =>
          /\ Calls(loops[last.who].ev, "DecodeString") = 1
          /\ Calls(loops[last.who].ev, "Decrypt") = 1
          /\ Calls(loops[last.who].ev, "CreateTunnel") = 1
          /\ tunnelOpen
          /\ lastActivity # ZeroTime
          /\ lastActivity >= last.createdAt

\* C5: an iteration that reads status IDLE with a tunnel client and the
\* tunnel open calls CloseTunnel exactly once, and whether or not the call
\* fails the iteration goes on to Schedule and HandleReceivedLogsRequests.
C5_IdleTunnelClosedOnce ==
    /\ ( /\ last.op = "GetEnvironmentStatus" /\ last.status = "IDLE"
         /\ tunnelClient /\ last.wasOpen )
          => loops[last.who].pc = "close"
    /\ (last.call = "close" /\ last.op # "monitor closed") =>
          /\ last.op = "CloseTunnel"
          /\ loops[last.who].pc = "schedule"
          /\ Calls(loops[last.who].ev, "CloseTunnel") = 1
    /\ ( /\ last.op = "poll returned" /\ last.status = "IDLE"
         /\ \E i \in Indices(last.ev) : last.ev[i] = Ev("IsTunnelOpen", TRUE) )
          => /\ Calls(last.ev, "CloseTunnel") = 1
             /\ Calls(last.ev, "Schedule") = 1
             /\ Calls(last.ev, "HandleReceivedLogsRequests") = 1

\* an IDLE iteration whose CloseTunnel failed has run to its end
C5_Witness ==
    /\ last.op = "poll returned" /\ last.status = "IDLE"
    /\ \E i \in Indices(last.ev) : last.ev[i] = Ev("CloseTunnel", FALSE)

\* C6: when the creation fails, at the decoding, at the decryption or in
\* CreateTunnel, a tunnel that was closed is still closed and lastActivity
\* has the value it had before the attempt.
C6_FailedCreationChangesNothing ==
    ( /\ last.cred # ""
      /\ \/ DecodeString(last.cred).err
         \/ Decrypt(DecodeString(last.cred).val).err
         \/ ~last.ok )
       => /\ ~last.wasOpen => ~tunnelOpen
          /\ lastActivity = last.wasActive
          /\ loops[last.who].pc \notin {"reset_chk", "reset_set"}

\* a creation that failed after an earlier tunnel had set lastActivity
C6_Witness ==
    /\ last.cred # "" /\ last.err \in {"decode", "decrypt", "create"}
    /\ ~last.wasOpen /\ last.wasActive # ZeroTime

\* C7: when the creation fails in a REQUIRED iteration, poll() returns the
\* error of the failing stage at once: the iteration calls neither Schedule
\* nor HandleReceivedLogsRequests, updates no cadence, calls no SetTimeout,
\* launches no restart and calls no UpdateStacksStatus.
C7_FailedCreationEndsIteration ==
    ( /\ last.cred # ""
      /\ \/ DecodeString(last.cred).err
         \/ Decrypt(DecodeString(last.cred).val).err
         \/ ~last.ok )
       => /\ last.op = "poll returned"
          /\ last.status = "REQUIRED"
          /\ last.err = ( IF DecodeString(last.cred).err THEN "decode"
                          ELSE IF Decrypt(DecodeString(last.cred).val).err
                          THEN "decrypt" ELSE "create" )
          /\ loops[last.who].pc = "top"
          /\ \A op \in {"Schedule", "HandleReceivedLogsRequests",
                        "pollIntervalInSeconds", "SetTimeout",
                        "go restartStatusPollLoop", "UpdateStacksStatus"} :
                Calls(last.ev, op) = 0

\* poll() returned the error of CreateTunnel
C7_Witness ==
    /\ last.op = "poll returned" /\ last.status = "REQUIRED"
    /\ last.err = "create" /\ last.call = "create"

\* C8: an iteration whose fetch fails calls nothing else and leaves
\* pollIntervalInSeconds, lastActivity, refreshSignal and the tunnel as they
\* were, and its loop is back at the top of the for loop, not stopped.
C8_FetchFailureIsHarmless ==
    (last.op = "poll returned" /\ last.err = "fetch") =>
        /\ last.ev = <<Ev("GetEnvironmentStatus", FALSE)>>
        /\ pollIntervalInSeconds = last.cadence
        /\ lastActivity = last.wasActive
        /\ refreshSignal = last.sig
        /\ tunnelOpen = last.wasOpen
        /\ loops[last.who].pc = "top"

\* a fetch failed while the tunnel was open and the service started
C8_Witness ==
    /\ last.op = "poll returned" /\ last.err = "fetch"
    /\ tunnelOpen /\ lastActivity # ZeroTime /\ refreshSignal # NilChan

\* C9: an iteration goes to the cadence update only for a CheckinInterval
\* that is positive and differs from pollIntervalInSeconds; an iteration
\* that did writes pollIntervalInSeconds, calls SetTimeout and launches
\* restartStatusPollLoop exactly once each and leaves the new value in
\* pollIntervalInSeconds; any other iteration does none of the three and
\* leaves pollIntervalInSeconds as it was.
C9_CadenceChange ==
    /\ last.op = "Schedule" =>
          last.checkin > 0 /\ last.checkin # last.cadence
    /\ (last.op = "poll returned" /\ Calls(last.ev, "Schedule") = 1) =>
          IF \/ last.spawned > 0
             \/ \E op \in {"pollIntervalInSeconds", "SetTimeout",
                           "go restartStatusPollLoop"} : Calls(last.ev, op) > 0
          THEN /\ last.spawned = 1
               /\ \A op \in {"pollIntervalInSeconds", "SetTimeout",
                             "go restartStatusPollLoop"} : Calls(last.ev, op) = 1
               /\ last.checkin > 0
               /\ pollIntervalInSeconds = last.checkin
          ELSE /\ ~(last.checkin > 0 /\ last.checkin # last.cadence)
               /\ pollIntervalInSeconds = last.cadence

\* an iteration changed the cadence from PollFrequency to another value
C9_Witness ==
    /\ last.op = "poll returned" /\ last.spawned = 1
    /\ last.cadence = PollFrequency /\ pollIntervalInSeconds # PollFrequency

\* C10: CreateTunnel is only called with a tunnel client and the tunnel
\* closed at the moment of the call, CloseTunnel only with a tunnel client
\* and the tunnel open at the moment of the call.
C10_TunnelCallsGuarded ==
    /\ last.call = "create" => tunnelClient /\ ~last.wasOpen
    /\ last.call = "close" => tunnelClient /\ last.wasOpen

\* C11: a monitor tick that finds lastActivity non-zero and then the tunnel
\* open calls CloseTunnel if and only if the idle time it computed is
\* greater than inactivityTimeout; with an idle time up to the timeout the
\* tunnel is left open; after CloseTunnel, failed or not, the monitor waits
\* for its next tick.
C11_MonitorClosesWhenIdle ==
    /\ last.op = "monitor closed" =>
          /\ last.elapsed > InactivityTimeout
          /\ last.ok => ~tunnelOpen
          /\ monitors[last.who].pc = "wait"
    /\ (last.op = "monitor kept" /\ last.wasOpen) =>
          /\ last.elapsed <= InactivityTimeout
          /\ tunnelOpen
          /\ monitors[last.who].pc = "wait"
    /\ \A m \in Indices(monitors) :
          monitors[m].pc = "close" => monitors[m].elapsed > InactivityTimeout

\* a tick left the tunnel open at an idle time equal to the timeout
C11_Witness ==
    /\ last.op = "monitor kept" /\ last.wasOpen
    /\ last.elapsed = InactivityTimeout

\* C12: while lastActivity is zero no monitor goes past the zero test: none
\* compares an idle time, none calls CloseTunnel, whether or not the tunnel
\* is open.
C12_NoCloseWhileNeverActive ==
    lastActivity = ZeroTime =>
        /\ \A m \in Indices(monitors) : monitors[m].pc = "wait"
        /\ last.op \notin {"monitor kept", "monitor closed"}

\* a tick was skipped while the tunnel was open
C12_Witness ==
    /\ last.op = "monitor skipped" /\ last.wasOpen /\ tunnelOpen
    /\ lastActivity = ZeroTime

\* C13: every write of lastActivity, in createTunnel and in the hook of the
\* HTTP layer, happens at a moment when there is a tunnel client and the
\* tunnel is open; and lastActivity is non-zero only if a CreateTunnel has
\* succeeded before.
C13_ActivityWrittenWhileOpen ==
    /\ last.wrote => tunnelClient /\ last.wasOpen
    /\ lastActivity # ZeroTime => lastCreated # ZeroTime

\* C14: an iteration that reaches the stack step calls UpdateStacksStatus
\* not at all when the stack list of the response is nil, and exactly once
\* when it is present: with the empty map for an empty list, and otherwise
\* with the map that sends the ID of each stack of the list to its Version.
C14_StacksStatusUpdated ==
    (last.op = "poll returned" /\ last.err \in {"nil", "stacks"}) =>
        IF ~last.stacks.present
        THEN /\ Calls(last.ev, "UpdateStacksStatus") = 0
             /\ last.mapping = <<>>
        ELSE /\ Calls(last.ev, "UpdateStacksStatus") = 1
             /\ Len(last.mapping) = 1
             /\ DOMAIN last.mapping[1] =
                   {last.stacks.list[i].ID : i \in Indices(last.stacks.list)}
             /\ \A i \in Indices(last.stacks.list) :
                   last.mapping[1][last.stacks.list[i].ID] =
                       last.stacks.list[i].Version

\* UpdateStacksStatus was called with the map of a list of two stacks
C14_Witness ==
    /\ last.op = "poll returned" /\ Len(last.stacks.list) = 2
    /\ Len(last.mapping) = 1 /\ Cardinality(DOMAIN last.mapping[1]) = 2

\* C15: without a tunnel client neither CreateTunnel nor CloseTunnel is
\* ever called, start() launches no activity-monitoring loop, lastActivity
\* stays zero, and every iteration whose fetch succeeded calls Schedule and
\* HandleReceivedLogsRequests, and UpdateStacksStatus when the response has
\* a stack list.
C15_NoTunnelClient ==
    ~tunnelClient =>
        /\ last.call = ""
        /\ ~tunnelOpen
        /\ \A l \in Indices(loops) :
              loops[l].pc \notin {"close", "create", "reset_chk", "reset_set"}
        /\ monitors = <<>>
        /\ lastActivity = ZeroTime /\ http = "idle" /\ ~last.wrote
        /\ (last.op = "poll returned" /\ last.err # "fetch") =>
              /\ Calls(last.ev, "Schedule") = 1
              /\ Calls(last.ev, "HandleReceivedLogsRequests") = 1
              /\ last.stacks.present =>
                    Calls(last.ev, "UpdateStacksStatus") = 1
              /\ last.err \in {"nil", "stacks"}

\* without a tunnel client an iteration with status REQUIRED ran to its end
C15_Witness ==
    /\ ~tunnelClient /\ last.op = "poll returned" /\ last.status = "REQUIRED"
    /\ last.err = "nil" /\ last.stacks.present
    /\ caller.did = <<"make", "poll loop">>

\* C16: in an iteration that no error ended early the calls and writes come
\* in this order: the fetch, the tunnel step (IsTunnelOpen, then CloseTunnel
\* or DecodeString, Decrypt, CreateTunnel and the write of lastActivity),
\* Schedule, HandleReceivedLogsRequests, the cadence step (the write of
\* pollIntervalInSeconds, SetTimeout, go restartStatusPollLoop), and
\* UpdateStacksStatus; the fetch, Schedule and HandleReceivedLogsRequests are
\* always among them, and UpdateStacksStatus follows a launched restart
\* whenever the response has a stack list.
C16_StepsInOrder ==
    (last.op = "poll returned" /\ last.err \in {"nil", "stacks"}) =>
        LET order == <<"GetEnvironmentStatus", "IsTunnelOpen", "CloseTunnel",
                       "DecodeString", "Decrypt", "CreateTunnel",
                       "lastActivity", "Schedule",
                       "HandleReceivedLogsRequests", "pollIntervalInSeconds",
                       "SetTimeout", "go restartStatusPollLoop",
                       "UpdateStacksStatus">>
            At(i) == CHOOSE k \in Indices(order) : order[k] = last.ev[i].op
        IN  /\ \A i \in Indices(last.ev) :
                  \E k \in Indices(order) : order[k] = last.ev[i].op
            /\ \A i, j \in Indices(last.ev) : i < j => At(i) < At(j)
            /\ last.ev[1].op = "GetEnvironmentStatus"
            /\ Calls(last.ev, "Schedule") = 1
            /\ Calls(last.ev, "HandleReceivedLogsRequests") = 1
            /\ ( /\ Calls(last.ev, "go restartStatusPollLoop") = 1
                 /\ last.stacks.present )
                  => Calls(last.ev, "UpdateStacksStatus") = 1

\* an iteration created the tunnel, changed the cadence and updated the stacks
C16_Witness ==
    /\ last.op = "poll returned" /\ last.err = "nil"
    /\ Calls(last.ev, "CreateTunnel") = 1 /\ Calls(last.ev, "lastActivity") = 1
    /\ Calls(last.ev, "go restartStatusPollLoop") = 1
    /\ Calls(last.ev, "UpdateStacksStatus") = 1

\* C17: an iteration whose Schedule call failed still calls
\* HandleReceivedLogsRequests, still makes the cadence step (SetTimeout is
\* called unless the CheckinInterval asks for no change), still calls
\* UpdateStacksStatus when there is a stack list, and returns nil unless
\* UpdateStacksStatus failed; an iteration whose UpdateStacksStatus failed
\* returns that error.
C17_ScheduleFailureOnlyLogged ==
    LET Has(e) == \E i \in Indices(last.ev) : last.ev[i] = e IN
    /\ (last.op = "Schedule" /\ ~last.ok) =>
          /\ loops[last.who].pc = "cadence_set"
          /\ Calls(loops[last.who].ev, "HandleReceivedLogsRequests") = 1
    /\ (last.op = "poll returned" /\ Has(Ev("Schedule", FALSE))) =>
          /\ Calls(last.ev, "HandleReceivedLogsRequests") = 1
          /\ \/ Calls(last.ev, "SetTimeout") = 1
             \/ ~(last.checkin > 0 /\ last.checkin # last.cadence)
          /\ last.stacks.present => Calls(last.ev, "UpdateStacksStatus") = 1
          /\ last.err = IF Has(Ev("UpdateStacksStatus", FALSE))
                        THEN "stacks" ELSE "nil"
    /\ (last.op = "poll returned" /\ Has(Ev("UpdateStacksStatus", FALSE))) =>
          last.err = "stacks"

\* Schedule failed in an iteration that changed the cadence and returned nil
C17_Witness ==
    /\ last.op = "poll returned" /\ last.err = "nil"
    /\ \E i \in Indices(last.ev) : last.ev[i] = Ev("Schedule", FALSE)
    /\ Calls(last.ev, "SetTimeout") = 1
    /\ \E i \in Indices(last.ev) : last.ev[i] = Ev("UpdateStacksStatus", TRUE)

\* C18: no step of an activity-monitoring loop calls CreateTunnel, opens
\* the tunnel or writes lastActivity; all it does to the tunnel is call
\* CloseTunnel.
C18_MonitorOnlyCloses ==
    [][ (monitors' # monitors \/ last'.op = "monitor skipped") =>
            /\ lastActivity' = lastActivity
            /\ tunnelOpen' => tunnelOpen
            /\ last'.call \in {"", "close"}
            /\ ~last'.wrote ]_vars

\* a monitor has closed the tunnel
C18_Witness ==
    /\ last.op = "monitor closed" /\ last.ok /\ last.wasOpen /\ ~tunnelOpen
    /\ lastActivity # ZeroTime /\ now > lastActivity

\* C19: at any instant at most one activity-monitoring loop is active,
\* whatever start(), stop() and the restarts do; a launched monitor stays
\* active, since nothing ever closes its quit channel.
C19_AtMostOneMonitor ==
    Len(monitors) <= 1

\* C20: whenever an activity-monitoring loop closes the tunnel (its
\* CloseTunnel succeeds on an open tunnel), more than inactivityTimeout has
\* passed since the latest successful CreateTunnel and since the latest
\* write of lastActivity; now, the latest instant any goroutine read from
\* the clock, is an instant at which the call can happen.
C20_MonitorClosesOnlyIdleTunnel ==
    (last.op = "monitor closed" /\ last.ok /\ last.wasOpen) =>
        /\ now - lastCreated > InactivityTimeout
        /\ now - lastActivity > InactivityTimeout

\* C21: no cancellation channel is ever closed twice: however an external
\* stop() and the stop() inside a running restartStatusPollLoop(), or the
\* stop() of two restarts, interleave, close(service.refreshSignal) is never
\* executed on a channel that is already closed.
C21_NoChannelClosedTwice ==
    panicked # "close of closed channel"

====
